---- MODULE Spec2Model ----
(* Run-once bulk import scripts: main.py, mainWithRadar.py, tallyDealers.py   *)
(* and verifiedDealers.py.  Each reads a spreadsheet, cleans its columns,     *)
(* builds one tuple per row, inserts the tuples in one transaction and, in    *)
(* mainWithRadar.py, sends one geofence PUT per record.                       *)
EXTENDS Integers, Sequences, FiniteSets, TLC

VARIABLES
    script,        \* which of the four scripts runs
    dbUrl,         \* os.getenv("DATABASE_URL") / ("TALLY_DATABASE_URL"); "" when unset
    radarKey,      \* os.getenv("RADAR_SECRET_KEY"); "" when unset
    fileOK,        \* whether pd.read_excel can load the workbook
    sheet,         \* the data rows of the spreadsheet, as read
    pc,            \* position of the script
    df,            \* the DataFrame after the column cleaning
    records,       \* records_to_insert / data_to_insert
    conn,          \* "none" (conn = None), "open", "closed"
    txn,           \* rows inserted in the open transaction, not yet committed
    table,         \* rows committed to TARGET_TABLE by this run
    sent,          \* statements execute_batch got through before it returned or raised
    dbLog,         \* the database calls made, in order
    rowIdx,        \* rows the main loop has gone through
    exc,           \* the exception in flight: "none", "db" (psycopg2.Error), "other"
    radarIdx,      \* records the Radar loop has gone through
    successCount,  \* success_count of the Radar loop
    puts,          \* the HTTP PUT requests sent, in order, each with its answer
    geofences,     \* the geofences the API holds, by externalId
    cleanIn,       \* the value a clean_value call is given
    cleanOut       \* what each script's clean_value returned for it

vars == <<script, dbUrl, radarKey, fileOK, sheet, pc, df, records, conn, txn,
          table, sent, dbLog, rowIdx, exc, radarIdx, successCount, puts, geofences,
          cleanIn, cleanOut>>

\* Largest number of calls of upsert_radar_geofence on one record.
MaxCalls == 2

\* Largest number of data rows of a spreadsheet.
MaxRows == 2

Scripts == {"main", "mainWithRadar", "tallyDealers", "verifiedDealers"}

\* The scripts that load the dealers table (latitude, longitude, uuid id).
DealerScripts == {"main", "mainWithRadar"}

--------------------------------------------------------------------------------
(* Column lists *)

DealersTargetColumns ==
    << "id", "user_id", "type", "parent_dealer_id", "name", "region", "area",
       "phone_no", "address", "total_potential", "best_potential",
       "brand_selling", "feedbacks", "remarks", "pinCode", "dateOfBirth",
       "anniversaryDate", "latitude", "longitude", "verification_status",
       "business_type", "nameOfFirm", "underSalesPromoterName", "gstin_no",
       "pan_no" >>

TallyTargetColumns ==
    << "institution", "name", "alias", "address1", "address2", "address3",
       "address4", "address5", "bill_wise_details", "phone", "mobile", "email",
       "group1", "group2", "group3", "group4", "pan", "tin", "cst", "cr_limit",
       "contact_person", "state", "pincode", "gst_reg_type", "gst_no",
       "list_of_ledger", "sd_ledger", "salesman_name", "sales_promoter",
       "security_blank_check_no", "destination", "district", "zone" >>

VerifiedTargetColumns ==
    << "dealer_code", "dealer_category", "is_subdealer", "dealer_party_name",
       "zone", "area", "contact_no1", "contact_no2", "email", "address",
       "pin_code", "related_sp_name", "owner_proprietor_name",
       "nature_of_firm", "gst_no", "pan_no" >>

TARGET_COLUMNS(s) ==
    CASE s \in DealerScripts -> DealersTargetColumns
      [] s = "tallyDealers" -> TallyTargetColumns
      [] OTHER -> VerifiedTargetColumns

EXPECTED_COLUMNS(s) == Len(TARGET_COLUMNS(s))

\* Variant of DealersTupleFields with latitude and longitude written in the
\* other order.
DealersTupleFieldsSwapped ==
    << "id", "user_id", "type", "parent_dealer_id", "name", "region", "area",
       "phone_no", "address", "total_potential", "best_potential",
       "brand_selling", "feedbacks", "remarks", "pinCode", "dateOfBirth",
       "anniversaryDate", "longitude", "latitude", "verificationStatus",
       "business_type", "nameOfFirm", "underSalesPromoterName", "gstin_no",
       "pan_no" >>

\* The DataFrame column each element of data_tuple is read from, in the order
\* the tuple is written; "id" is the uuid generated for the row.
DealersTupleFields ==
    << "id", "user_id", "type", "parent_dealer_id", "name", "region", "area",
       "phone_no", "address", "total_potential", "best_potential",
       "brand_selling", "feedbacks", "remarks", "pinCode", "dateOfBirth",
       "anniversaryDate", "latitude", "longitude", "verificationStatus",
       "business_type", "nameOfFirm", "underSalesPromoterName", "gstin_no",
       "pan_no" >>

VerifiedTupleFields ==
    << "dealer_code", "dealer_category", "is_subdealer", "dealer_party_name",
       "zone", "area", "contact_no1", "contact_no2", "email", "address",
       "pin_code", "related_sp_name", "owner_proprietor_name",
       "nature_of_firm", "gst_no", "pan_no" >>

\* tallyDealers.py builds the tuple from TARGET_COLUMNS itself.
TupleFields(s) ==
    CASE s \in DealerScripts -> DealersTupleFields
      [] s = "tallyDealers" -> TARGET_COLUMNS(s)
      [] OTHER -> VerifiedTupleFields

--------------------------------------------------------------------------------
(* Cell values.  A value is the cleaned content of one cell, named by its     *)
(* DataFrame column and row; kind tells what the cleaning made of it.         *)

Cell(k, c, r) == [kind |-> k, col |-> c, row |-> r]

\* A spreadsheet row, as far as the scripts branch on it: whether latitude and
\* longitude are numeric ("num") or missing / not numeric ("bad"), and whether
\* user_id is a non-zero number ("pos") or ends up 0 ("zero").
RowKinds(s) ==
    CASE s = "mainWithRadar" ->
            [latitude : {"num", "bad"}, longitude : {"num", "bad"}, user_id : {"pos", "zero"}]
      [] s = "main" ->
            [latitude : {"num", "bad"}, longitude : {"num", "bad"}, user_id : {"pos"}]
      [] OTHER ->
            [latitude : {"na"}, longitude : {"na"}, user_id : {"na"}]

Sheets(s) == UNION { [1..n -> RowKinds(s)] : n \in 0..MaxRows }

\* pd.to_numeric(errors='coerce') followed by
\* .apply(lambda x: None if pd.isna(x) else x): Series.apply infers the dtype of
\* its result, so the None it is given become NaN again in a column that holds
\* at least one number (float64) and stay None only in a column with no number
\* at all (object).
CleanFloatColumn(sh, c) ==
    LET anyNum == \E r \in 1..Len(sh) : sh[r][c] = "num"
    IN  [r \in 1..Len(sh) |->
            IF sh[r][c] = "num" THEN Cell("val", c, r)
            ELSE IF anyNum THEN Cell("NaN", c, r)
            ELSE Cell("None", c, r)]

\* pd.to_numeric(errors='coerce').fillna(0).astype(int)
CleanIntColumn(sh, c) ==
    [r \in 1..Len(sh) |->
        IF sh[r][c] = "zero" THEN Cell("zero", c, r) ELSE Cell("val", c, r)]

\* The cleaned DataFrame: the columns the scripts branch on; every other
\* column's cleaned value is Cell("val", column, row).
CleanFrame(s, sh) ==
    IF s \in DealerScripts
    THEN LET lat == CleanFloatColumn(sh, "latitude")
             lng == CleanFloatColumn(sh, "longitude")
             uid == CleanIntColumn(sh, "user_id")
         IN  [r \in 1..Len(sh) |->
                [latitude |-> lat[r], longitude |-> lng[r], user_id |-> uid[r]]]
    ELSE [r \in 1..Len(sh) |->
            [latitude |-> Cell("val", "latitude", r),
             longitude |-> Cell("val", "longitude", r),
             user_id |-> Cell("val", "user_id", r)]]

\* row[field] in the main loop; "id" is str(uuid.uuid4()), distinct per row.
RowValue(s, frame, r, field) ==
    IF s \in DealerScripts /\ field = "id" THEN Cell("uuid", "id", r)
    ELSE IF s \in DealerScripts /\ field = "brand_selling"
         THEN Cell("list", "brand_selling", r)   \* brand_list_or_none
    ELSE IF s \in DealerScripts /\ field \in {"latitude", "longitude", "user_id"}
         THEN frame[r][field]
    ELSE Cell("val", field, r)

\* data_tuple of row r.
DataTuple(s, frame, r) ==
    [i \in 1..Len(TupleFields(s)) |-> RowValue(s, frame, r, TupleFields(s)[i])]

--------------------------------------------------------------------------------
(* upsert_radar_geofence *)

\* Variant of At that counts the tuple from 1 where the script counts from 0:
\* every read lands one element late.
AtOneLate(dealer_data, i) == dealer_data[i + 2]

\* dealer_data[i], the tuple indexed from 0 as the script does.
At(dealer_data, i) == dealer_data[i + 1]

\* "if latitude is None or longitude is None": the record is skipped.
RadarSkips(dealer_data) ==
    \/ At(dealer_data, 17).kind = "None"
    \/ At(dealer_data, 18).kind = "None"

\* metadata, with the keys whose value is None removed; user_id 0 is falsy,
\* so "str(user_id) if user_id else None" drops it.
RadarMetadata(dealer_data) ==
    LET all == [dealerId |-> At(dealer_data, 0),
                userId |-> At(dealer_data, 1),
                region |-> At(dealer_data, 5),
                area |-> At(dealer_data, 6),
                phoneNo |-> At(dealer_data, 7),
                verificationStatus |-> At(dealer_data, 19)]
        keep == {k \in DOMAIN all : ~(k = "userId" /\ all[k].kind = "zero")}
    IN  [k \in keep |-> all[k]]

\* Variant of RadarRequest that names the geofence by a uuid generated in
\* the call instead of the record's id.
RadarRequestFreshId(dealer_data, secret_key) ==
    [url |-> Cell("uuid", "id", 100 + Len(puts)),
     authorization |-> secret_key,
     description |-> At(dealer_data, 4),
     coordinates |-> <<At(dealer_data, 18), At(dealer_data, 17)>>,
     externalId |-> Cell("uuid", "id", 100 + Len(puts)),
     metadata |-> RadarMetadata(dealer_data)]

\* The PUT request: url and externalId are "dealer:<dealer_id>", coordinates
\* are [float(longitude), float(latitude)].
RadarRequest(dealer_data, secret_key) ==
    [url |-> At(dealer_data, 0),
     authorization |-> secret_key,
     description |-> At(dealer_data, 4),
     coordinates |-> <<At(dealer_data, 18), At(dealer_data, 17)>>,
     externalId |-> At(dealer_data, 0),
     metadata |-> RadarMetadata(dealer_data)]

\* What the API holds after a PUT it accepted: the geofence of that
\* externalId is created or replaced.
ApiPut(store, req) ==
    {g \in store : g.externalId # req.externalId} \cup {req}

\* The outcomes of requests.put: status 200 or 201, another status, or an
\* exception raised by the request.
Responses == {"200", "201", "500", "exception"}

\* The return value of upsert_radar_geofence: True only for a PUT answered
\* 200 or 201; False for a skipped record, another status or an exception.
UpsertResult(dealer_data, resp) ==
    ~RadarSkips(dealer_data) /\ resp \in {"200", "201"}

\* The effect of upsert_radar_geofence(dealer_data, secret_key) when the
\* request, if one is sent, is answered resp: the PUT is logged with its
\* answer, and the API holds it when it answered 200 or 201.
UpsertRadarGeofence(dealer_data, secret_key, resp) ==
    IF RadarSkips(dealer_data)
    THEN UNCHANGED <<puts, geofences>>
    ELSE /\ puts' = Append(puts, [req |-> RadarRequest(dealer_data, secret_key),
                                  status |-> resp])
         /\ geofences' = IF resp \in {"200", "201"}
                         THEN ApiPut(geofences, RadarRequest(dealer_data, secret_key))
                         ELSE geofences

--------------------------------------------------------------------------------
(* clean_value.  A value is either one pandas counts as missing (NaN, None,   *)
(* NaT) or one with a text, str(value), written as a sequence of characters.  *)

\* Longest text of a value given to clean_value.
MaxStrLen == 4

\* The characters the copies of clean_value tell apart: white space, the
\* letters of "nan" and an upper-case one, the characters of ".0", and
\* another one.
Chars == {" ", "n", "a", "N", ".", "0", "7"}

NaValue == [na |-> TRUE, str |-> << >>]

Values ==
    {NaValue} \cup
    {[na |-> FALSE, str |-> t] : t \in UNION {[1..n -> Chars] : n \in 0..MaxStrLen}}

\* The results of clean_value: None, or a string.
ResultNone == [none |-> TRUE, str |-> << >>]
ResultStr(t) == [none |-> FALSE, str |-> t]

\* str.strip()
RECURSIVE Strip(_)
Strip(t) ==
    IF t = << >> THEN t
    ELSE IF Head(t) = " " THEN Strip(Tail(t))
    ELSE IF t[Len(t)] = " " THEN Strip(SubSeq(t, 1, Len(t) - 1))
    ELSE t

\* str.lower()
Lower(t) ==
    [i \in 1..Len(t) |-> IF t[i] = "N" THEN "n" ELSE t[i]]

\* re.sub(r'\.0$', '', t): a ".0" at the end of the text is removed.
SubDotZero(t) ==
    IF Len(t) >= 2 /\ t[Len(t) - 1] = "." /\ t[Len(t)] = "0"
    THEN SubSeq(t, 1, Len(t) - 2)
    ELSE t

\* clean_value of main.py
clean_value_main(value) ==
    IF value.na THEN ResultNone
    ELSE LET value_str == Strip(value.str)
         IN  IF value_str = << >> \/ Lower(value_str) = <<"n", "a", "n">>
             THEN ResultNone
             ELSE ResultStr(SubDotZero(value_str))

\* clean_value of mainWithRadar.py
clean_value_mainWithRadar(value) ==
    IF value.na THEN ResultNone
    ELSE LET value_str == Strip(value.str)
         IN  IF value_str = << >> \/ Lower(value_str) = <<"n", "a", "n">>
             THEN ResultNone
             ELSE ResultStr(SubDotZero(value_str))

\* Variant of clean_value of tallyDealers.py that removes the ".0" before it
\* looks for "nan".
clean_value_tallyDealers_sub_first(value) ==
    IF value.na THEN ResultNone
    ELSE LET val == SubDotZero(Strip(value.str))
         IN  IF Lower(val) = <<"n", "a", "n">> \/ val = << >>
             THEN ResultNone
             ELSE ResultStr(val)

\* clean_value of tallyDealers.py
clean_value_tallyDealers(value) ==
    IF value.na THEN ResultNone
    ELSE LET val == Strip(value.str)
         IN  IF Lower(val) = <<"n", "a", "n">> \/ val = << >>
             THEN ResultNone
             ELSE ResultStr(SubDotZero(val))

\* clean_value of verifiedDealers.py
clean_value_verifiedDealers(value) ==
    IF value.na THEN ResultNone
    ELSE LET value_str == Strip(value.str)
         IN  IF Lower(value_str) = <<"n", "a", "n">> \/ value_str = << >>
             THEN ResultNone
             ELSE ResultStr(SubDotZero(value_str))

\* The clean_value of script s.
clean_value(s, value) ==
    CASE s = "main" -> clean_value_main(value)
      [] s = "mainWithRadar" -> clean_value_mainWithRadar(value)
      [] s = "tallyDealers" -> clean_value_tallyDealers(value)
      [] s = "verifiedDealers" -> clean_value_verifiedDealers(value)

--------------------------------------------------------------------------------
(* The scripts *)

Init ==
    /\ cleanIn = NaValue
    /\ cleanOut = << >>
    /\ script \in Scripts
    /\ dbUrl \in {"", "postgres://neon"}
    /\ radarKey \in IF script = "mainWithRadar" THEN {"", "prj_live_sk"} ELSE {""}
    /\ fileOK \in BOOLEAN
    /\ sheet \in Sheets(script)
    /\ pc = "start"
    /\ df = << >>
    /\ records = << >>
    /\ conn = "none"
    /\ txn = << >>
    /\ table = << >>
    /\ sent = 0
    /\ dbLog = << >>
    /\ rowIdx = 0
    /\ exc = "none"
    /\ radarIdx = 0
    /\ successCount = 0
    /\ puts = << >>
    /\ geofences = {}

\* Variant of LoadEnv without the "if not db_url" check.
LoadEnvUnchecked ==
    /\ pc = "start"
    /\ pc' = "read"
    /\ UNCHANGED <<cleanIn, cleanOut, script, dbUrl, radarKey, fileOK, sheet, df, records, conn, txn,
                   table, sent, dbLog, rowIdx, exc, radarIdx, successCount, puts,
                   geofences>>

\* load_dotenv(); db_url = os.getenv(...); "if not db_url: ... exit()".
LoadEnv ==
    /\ pc = "start"
    /\ pc' = IF dbUrl = "" THEN "exit" ELSE "read"
    /\ UNCHANGED <<cleanIn, cleanOut, script, dbUrl, radarKey, fileOK, sheet, df, records, conn, txn,
                   table, sent, dbLog, rowIdx, exc, radarIdx, successCount, puts,
                   geofences>>

\* pd.read_excel and the column cleaning.  A workbook that cannot be read
\* raises: main.py and mainWithRadar.py catch it and end, the other two
\* scripts have no handler and stop with the exception.
ReadExcel ==
    /\ pc = "read"
    /\ IF fileOK
       THEN /\ df' = CleanFrame(script, sheet)
            /\ pc' = "build"
       ELSE /\ df' = df
            /\ pc' = IF script \in DealerScripts THEN "done" ELSE "crashed"
    /\ UNCHANGED <<cleanIn, cleanOut, script, dbUrl, radarKey, fileOK, sheet, records, conn, txn,
                   table, sent, dbLog, rowIdx, exc, radarIdx, successCount, puts,
                   geofences>>

\* One pass of "for index, row in df.iterrows()": the tuple is built and,
\* when its length is EXPECTED_COLUMNS, appended.
BuildRecord ==
    /\ pc = "build"
    /\ rowIdx < Len(df)
    /\ LET r == rowIdx + 1
           data_tuple == DataTuple(script, df, r)
       IN  records' = IF Len(data_tuple) = EXPECTED_COLUMNS(script)
                      THEN Append(records, data_tuple)
                      ELSE records
    /\ rowIdx' = rowIdx + 1
    /\ UNCHANGED <<cleanIn, cleanOut, script, dbUrl, radarKey, fileOK, sheet, pc, df, conn, txn,
                   table, sent, dbLog, exc, radarIdx, successCount, puts, geofences>>

\* After the loop: "if records_to_insert: insert_data_to_neon(...)".
CallInsert ==
    /\ pc = "build"
    /\ rowIdx = Len(df)
    /\ pc' = IF records # << >> THEN "connect" ELSE "done"
    /\ UNCHANGED <<cleanIn, cleanOut, script, dbUrl, radarKey, fileOK, sheet, df, records, conn, txn,
                   table, sent, dbLog, rowIdx, exc, radarIdx, successCount, puts,
                   geofences>>

--------------------------------------------------------------------------------
(* insert_data_to_neon *)

\* Where an exception raised inside the try block goes: psycopg2.Error to its
\* handler; any other exception to "except Exception" in main.py and
\* mainWithRadar.py, and straight to the finally block in the other two
\* scripts, which have no such handler.
Handler(s, kind) ==
    IF kind = "db" THEN "except_db"
    ELSE IF s \in DealerScripts THEN "except_other"
    ELSE "finally"

\* conn = psycopg2.connect(db_url): the connection opens, or the call raises
\* psycopg2.OperationalError and conn stays None.
Connect ==
    /\ pc = "connect"
    /\ dbLog' = Append(dbLog, "connect")
    /\ \/ /\ conn' = "open"
          /\ pc' = "execute"
          /\ exc' = exc
       \/ /\ conn' = conn
          /\ pc' = Handler(script, "db")
          /\ exc' = "db"
    /\ UNCHANGED <<cleanIn, cleanOut, script, dbUrl, radarKey, fileOK, sheet, df, records, txn, table,
                   sent, rowIdx, radarIdx, successCount, puts, geofences>>

\* Variant of ExecuteBatch with the connection left in autocommit mode: each
\* statement is committed as it runs.
ExecuteBatchAutocommit ==
    /\ pc = "execute"
    /\ dbLog' = Append(dbLog, "execute_batch")
    /\ \/ /\ sent' = Len(records)
          /\ table' = table \o records
          /\ pc' = "commit"
          /\ exc' = exc
       \/ \E k \in 0..(Len(records) - 1), kind \in {"db", "other"} :
            /\ sent' = k
            /\ table' = table \o SubSeq(records, 1, k)
            /\ pc' = Handler(script, kind)
            /\ exc' = kind
    /\ UNCHANGED <<cleanIn, cleanOut, script, dbUrl, radarKey, fileOK, sheet, df, records, conn, txn,
                   rowIdx, radarIdx, successCount, puts, geofences>>

\* extras.execute_batch(cursor, insert_query, data_to_insert) with autocommit
\* off: the statements run one after the other inside the open transaction.
\* The call returns after all of them, or raises after k of them: a
\* psycopg2.Error from the server, or another exception from the driver.
ExecuteBatch ==
    /\ pc = "execute"
    /\ dbLog' = Append(dbLog, "execute_batch")
    /\ \/ /\ sent' = Len(records)
          /\ txn' = records
          /\ pc' = "commit"
          /\ exc' = exc
       \/ \E k \in 0..(Len(records) - 1), kind \in {"db", "other"} :
            /\ sent' = k
            /\ txn' = SubSeq(records, 1, k)
            /\ pc' = Handler(script, kind)
            /\ exc' = kind
    /\ UNCHANGED <<cleanIn, cleanOut, script, dbUrl, radarKey, fileOK, sheet, df, records, conn, table,
                   rowIdx, radarIdx, successCount, puts, geofences>>

\* Variant of Commit in which a failed commit does not raise: the script goes
\* on as after a successful one.
CommitFailureIgnored ==
    /\ pc = "commit"
    /\ dbLog' = Append(dbLog, "commit")
    /\ \/ /\ table' = table \o txn
          /\ txn' = << >>
       \/ /\ table' = table
          /\ txn' = txn
    /\ pc' = IF script = "mainWithRadar" THEN "radar" ELSE "finally"
    /\ UNCHANGED <<cleanIn, cleanOut, script, dbUrl, radarKey, fileOK, sheet, df, records, conn, sent,
                   rowIdx, exc, radarIdx, successCount, puts, geofences>>

\* conn.commit(): the pending rows become the table's, or the call raises
\* psycopg2.Error and nothing is committed.
Commit ==
    /\ pc = "commit"
    /\ dbLog' = Append(dbLog, "commit")
    /\ \/ /\ table' = table \o txn
          /\ txn' = << >>
          /\ pc' = IF script = "mainWithRadar" THEN "radar" ELSE "finally"
          /\ exc' = exc
       \/ /\ table' = table
          /\ txn' = txn
          /\ pc' = Handler(script, "db")
          /\ exc' = "db"
    /\ UNCHANGED <<cleanIn, cleanOut, script, dbUrl, radarKey, fileOK, sheet, df, records, conn, sent,
                   rowIdx, radarIdx, successCount, puts, geofences>>

\* "if radar_key:" after the commit (mainWithRadar.py only).
RadarPhase ==
    /\ pc = "radar"
    /\ pc' = IF radarKey # "" THEN "radar_loop" ELSE "finally"
    /\ UNCHANGED <<cleanIn, cleanOut, script, dbUrl, radarKey, fileOK, sheet, df, records, conn, txn,
                   table, sent, dbLog, rowIdx, exc, radarIdx, successCount, puts,
                   geofences>>

\* Variant of RadarLoop in which an upsert that did not succeed raises
\* instead of returning False: the exception leaves the loop for the
\* handlers of insert_data_to_neon.
RadarLoopFailureRaises ==
    /\ pc = "radar_loop"
    /\ radarIdx < Len(records)
    /\ LET record == records[radarIdx + 1]
       IN  \E resp \in Responses :
             /\ UpsertRadarGeofence(record, radarKey, resp)
             /\ successCount' = IF UpsertResult(record, resp)
                                THEN successCount + 1
                                ELSE successCount
             /\ pc' = IF RadarSkips(record) \/ UpsertResult(record, resp)
                      THEN pc
                      ELSE Handler(script, "other")
             /\ exc' = IF RadarSkips(record) \/ UpsertResult(record, resp)
                       THEN exc
                       ELSE "other"
    /\ radarIdx' = radarIdx + 1
    /\ UNCHANGED <<cleanIn, cleanOut, script, dbUrl, radarKey, fileOK, sheet, df, records, conn,
                   txn, table, sent, dbLog, rowIdx>>

\* Variant of RadarLoop that leaves the loop at the first record whose
\* upsert did not succeed.
RadarLoopStopsOnFailure ==
    /\ pc = "radar_loop"
    /\ radarIdx < Len(records)
    /\ LET record == records[radarIdx + 1]
       IN  \E resp \in Responses :
             /\ UpsertRadarGeofence(record, radarKey, resp)
             /\ successCount' = IF UpsertResult(record, resp)
                                THEN successCount + 1
                                ELSE successCount
             /\ radarIdx' = IF UpsertResult(record, resp)
                            THEN radarIdx + 1
                            ELSE Len(records)
    /\ UNCHANGED <<cleanIn, cleanOut, script, dbUrl, radarKey, fileOK, sheet, pc, df, records, conn,
                   txn, table, sent, dbLog, rowIdx, exc>>

\* One pass of "for i, record in enumerate(data_to_insert)": the call of
\* upsert_radar_geofence(record, radar_key).  A record without coordinates is
\* skipped; otherwise the PUT is sent, and only status 200 or 201 counts as a
\* success.  A failed request is caught inside upsert_radar_geofence.
RadarLoop ==
    /\ pc = "radar_loop"
    /\ radarIdx < Len(records)
    /\ LET record == records[radarIdx + 1]
       IN  \E resp \in Responses :
             /\ UpsertRadarGeofence(record, radarKey, resp)
             /\ successCount' = IF UpsertResult(record, resp)
                                THEN successCount + 1
                                ELSE successCount
    /\ radarIdx' = radarIdx + 1
    /\ UNCHANGED <<cleanIn, cleanOut, script, dbUrl, radarKey, fileOK, sheet, pc, df, records, conn,
                   txn, table, sent, dbLog, rowIdx, exc>>

\* The loop has gone through every record: the try block ends.
RadarDone ==
    /\ pc = "radar_loop"
    /\ radarIdx = Len(records)
    /\ pc' = "finally"
    /\ UNCHANGED <<cleanIn, cleanOut, script, dbUrl, radarKey, fileOK, sheet, df, records, conn, txn,
                   table, sent, dbLog, rowIdx, exc, radarIdx, successCount, puts,
                   geofences>>

\* Variant of ExceptDb that tries the insert again after the rollback.
ExceptDbRetries ==
    /\ pc = "except_db"
    /\ IF conn = "open"
       THEN /\ dbLog' = Append(dbLog, "rollback")
            /\ txn' = << >>
       ELSE UNCHANGED <<dbLog, txn>>
    /\ exc' = "none"
    /\ pc' = IF conn = "open" THEN "execute" ELSE "connect"
    /\ UNCHANGED <<cleanIn, cleanOut, script, dbUrl, radarKey, fileOK, sheet, df, records, conn, table,
                   sent, rowIdx, radarIdx, successCount, puts, geofences>>

\* "except psycopg2.Error as e: ... if conn: conn.rollback()".
ExceptDb ==
    /\ pc = "except_db"
    /\ IF conn = "open"
       THEN /\ dbLog' = Append(dbLog, "rollback")
            /\ txn' = << >>
       ELSE UNCHANGED <<dbLog, txn>>
    /\ exc' = "none"
    /\ pc' = "finally"
    /\ UNCHANGED <<cleanIn, cleanOut, script, dbUrl, radarKey, fileOK, sheet, df, records, conn, table,
                   sent, rowIdx, radarIdx, successCount, puts, geofences>>

\* "except Exception as e:" of main.py and mainWithRadar.py: it prints, and
\* calls nothing on the connection.
ExceptOther ==
    /\ pc = "except_other"
    /\ exc' = "none"
    /\ pc' = "finally"
    /\ UNCHANGED <<cleanIn, cleanOut, script, dbUrl, radarKey, fileOK, sheet, df, records, conn, txn,
                   table, sent, dbLog, rowIdx, radarIdx, successCount, puts,
                   geofences>>

\* Variant of Finally with the close at the end of the try block instead: an
\* exception no handler took skips it.
FinallySkippedByException ==
    /\ pc = "finally"
    /\ IF conn = "open" /\ exc = "none"
       THEN /\ conn' = "closed"
            /\ dbLog' = Append(dbLog, "close")
            /\ txn' = << >>
       ELSE UNCHANGED <<conn, dbLog, txn>>
    /\ pc' = IF exc = "none" THEN "done" ELSE "crashed"
    /\ UNCHANGED <<cleanIn, cleanOut, script, dbUrl, radarKey, fileOK, sheet, df, records, table, sent,
                   rowIdx, exc, radarIdx, successCount, puts, geofences>>

\* "finally: if conn: conn.close()".  Closing a connection discards whatever
\* its transaction had pending.  An exception no handler took goes on to the
\* caller, which has no handler either.
Finally ==
    /\ pc = "finally"
    /\ IF conn = "open"
       THEN /\ conn' = "closed"
            /\ dbLog' = Append(dbLog, "close")
            /\ txn' = << >>
       ELSE UNCHANGED <<conn, dbLog, txn>>
    /\ pc' = IF exc = "none" THEN "done" ELSE "crashed"
    /\ UNCHANGED <<cleanIn, cleanOut, script, dbUrl, radarKey, fileOK, sheet, df, records, table, sent,
                   rowIdx, exc, radarIdx, successCount, puts, geofences>>

Next ==
    \/ LoadEnv
    \/ ReadExcel
    \/ BuildRecord
    \/ CallInsert
    \/ Connect
    \/ ExecuteBatch
    \/ Commit
    \/ RadarPhase
    \/ RadarLoop
    \/ RadarDone
    \/ ExceptDb
    \/ ExceptOther
    \/ Finally

Spec == Init /\ [][Next]_vars

\* The script has ended: normally, by exit(), or with an uncaught exception.
Ended == pc \in {"done", "exit", "crashed"}

--------------------------------------------------------------------------------
(* upsert_radar_geofence called again and again on one record *)

\* A geofence the API may hold from an earlier import under the record's
\* externalId, with another description.
StaleGeofence(dealer_data, secret_key) ==
    [RadarRequest(dealer_data, secret_key) EXCEPT !.description = Cell("val", "name", 0)]

\* One record of a cleaned sheet of mainWithRadar.py, already committed, and
\* an API that holds nothing or a stale geofence of that record.
InitUpsert ==
    /\ cleanIn = NaValue
    /\ cleanOut = << >>
    /\ script = "mainWithRadar"
    /\ dbUrl = "postgres://neon"
    /\ radarKey = "prj_live_sk"
    /\ fileOK = TRUE
    /\ sheet \in Sheets(script)
    /\ df = CleanFrame(script, sheet)
    /\ \E r \in 1..Len(sheet) : records = << DataTuple(script, df, r) >>
    /\ pc = "upsert"
    /\ conn = "closed"
    /\ txn = << >>
    /\ table = records
    /\ sent = Len(records)
    /\ dbLog = << "connect", "execute_batch", "commit", "close" >>
    /\ rowIdx = Len(sheet)
    /\ exc = "none"
    /\ radarIdx = 0
    /\ successCount = 0
    /\ puts = << >>
    /\ geofences \in {{}, {StaleGeofence(records[1], radarKey)}}

\* One more call upsert_radar_geofence(record, radar_key) on the record.
UpsertCall ==
    /\ pc = "upsert"
    /\ radarIdx < MaxCalls
    /\ \E resp \in Responses :
         /\ UpsertRadarGeofence(records[1], radarKey, resp)
         /\ successCount' = IF UpsertResult(records[1], resp)
                            THEN successCount + 1
                            ELSE successCount
    /\ radarIdx' = radarIdx + 1
    /\ UNCHANGED <<cleanIn, cleanOut, script, dbUrl, radarKey, fileOK, sheet, pc, df, records, conn,
                   txn, table, sent, dbLog, rowIdx, exc>>

NextUpsert == UpsertCall

SpecUpsert == InitUpsert /\ [][NextUpsert]_vars

--------------------------------------------------------------------------------
(* The four copies of clean_value called on one value *)

InitClean ==
    /\ cleanIn \in Values
    /\ cleanOut = << >>
    /\ pc = "clean"
    /\ script = "main"
    /\ dbUrl = "postgres://neon"
    /\ radarKey = ""
    /\ fileOK = TRUE
    /\ sheet = << >>
    /\ df = << >>
    /\ records = << >>
    /\ conn = "none"
    /\ txn = << >>
    /\ table = << >>
    /\ sent = 0
    /\ dbLog = << >>
    /\ rowIdx = 0
    /\ exc = "none"
    /\ radarIdx = 0
    /\ successCount = 0
    /\ puts = << >>
    /\ geofences = {}

\* The call clean_value(value) of script s.
CallCleanValue(s) ==
    /\ pc = "clean"
    /\ s \notin DOMAIN cleanOut
    /\ cleanOut' = (s :> clean_value(s, cleanIn)) @@ cleanOut
    /\ UNCHANGED <<cleanIn, script, dbUrl, radarKey, fileOK, sheet, pc, df, records,
                   conn, txn, table, sent, dbLog, rowIdx, exc, radarIdx,
                   successCount, puts, geofences>>

NextClean == \E s \in Scripts : CallCleanValue(s)

SpecClean == InitClean /\ [][NextClean]_vars

\* How many times database call c has been made.
Calls(c) == Cardinality({i \in DOMAIN dbLog : dbLog[i] = c})

\* insert_data_to_neon has been called and has returned or raised.
InsertEnded == pc \in {"done", "crashed"} /\ dbLog # << >>

\* The commit of the batch succeeded.
Committed == records # << >> /\ table = records

--------------------------------------------------------------------------------
(* C1 *)

\* C1: once insert_data_to_neon has returned or raised, the table holds
\* either every record of the batch or none of them, wherever execute_batch
\* or commit failed.
C1_BatchIsAtomic ==
    InsertEnded => (table = << >> \/ table = records)

\* execute_batch failed after some but not all statements, and the function
\* has ended with nothing of the batch in the table.
C1_Witness ==
    /\ InsertEnded
    /\ sent >= 1
    /\ sent < Len(records)
    /\ table = << >>

--------------------------------------------------------------------------------
(* C2 *)

\* C2: a connection that has been closed had commit or rollback called on
\* it before, whatever exception the batch insert raised.
C2_CommitOrRollbackBeforeClose ==
    conn = "closed" => (Calls("commit") >= 1 \/ Calls("rollback") >= 1)

--------------------------------------------------------------------------------
(* C3 *)

\* C3: one run opens at most one connection, calls execute_batch at most
\* once and commit at most once; nothing is retried after a failure, the
\* only recovery being one rollback, after which the connection is only
\* closed.
C3_NoRetry ==
    /\ Calls("connect") <= 1
    /\ Calls("execute_batch") <= 1
    /\ Calls("commit") <= 1
    /\ Calls("rollback") <= 1
    /\ \A i \in DOMAIN dbLog :
         dbLog[i] = "rollback" => \A j \in (i + 1)..Len(dbLog) : dbLog[j] = "close"

\* A run whose commit failed: it rolled back once and ended.
C3_Witness ==
    /\ pc = "done"
    /\ dbLog = << "connect", "execute_batch", "commit", "rollback", "close" >>
    /\ table = << >>

--------------------------------------------------------------------------------
(* C4 *)

NotSkipped(dealer_data) == ~RadarSkips(dealer_data)

\* The requests the Radar loop sends for a list of records: one for each
\* record with both coordinates, in order.
RequestsFor(recs, secret_key) ==
    LET eligible == SelectSeq(recs, NotSkipped)
    IN  [i \in 1..Len(eligible) |-> RadarRequest(eligible[i], secret_key)]

SentRequests == [i \in 1..Len(puts) |-> puts[i].req]

\* C4 as stated: with the key set and the batch committed, the finished run
\* has sent exactly one PUT for each record of the batch, in batch order.
C4_OnePutPerRecord ==
    (pc = "done" /\ script = "mainWithRadar" /\ radarKey # "" /\ Committed)
        => /\ Len(puts) = Len(records)
           /\ \A i \in 1..Len(puts) : puts[i].req.externalId = records[i][1]

\* C4 amended: with the key set and the batch committed, the PUTs sent are
\* exactly one for each record whose latitude and longitude are both not
\* None, in batch order, none omitted and none repeated; a record with a None
\* coordinate gets no PUT.  While the loop runs this holds of the records it
\* has gone through, and the finished run has gone through all of them.
C4_OnePutPerRecordWithCoordinates ==
    (script = "mainWithRadar" /\ radarKey # "" /\ Committed)
        => /\ SentRequests = RequestsFor(SubSeq(records, 1, radarIdx), radarKey)
           /\ pc = "done" => radarIdx = Len(records)

\* A finished run that sent a PUT for each of two records, one of them
\* answered with a failure.
C4_Witness ==
    /\ pc = "done"
    /\ script = "mainWithRadar"
    /\ Committed
    /\ Len(records) = 2
    /\ Len(puts) = 2
    /\ puts[1].status = "500"
    /\ puts[2].status = "200"

--------------------------------------------------------------------------------
(* C5 *)

\* C5: every dealer id sent to the geofencing API is the id of a row
\* committed to the table; so no PUT is made before the commit has succeeded
\* and none at all when connect, execute_batch or commit failed.
C5_PutsOnlyAfterCommit ==
    /\ \A i \in DOMAIN puts :
         \E j \in DOMAIN table : table[j][1] = puts[i].req.externalId
    /\ \A g \in geofences :
         \E j \in DOMAIN table : table[j][1] = g.externalId
    /\ ~Committed => puts = << >>

\* The Radar loop has sent a PUT.
C5_Witness ==
    /\ pc = "radar_loop"
    /\ puts # << >>
    /\ Committed

--------------------------------------------------------------------------------
(* C7 *)

\* The table column a DataFrame column is loaded into: the scripts name the
\* DataFrame columns as the table's, but for verificationStatus.
TableColumnOf(c) == IF c = "verificationStatus" THEN "verification_status" ELSE c

\* The main loop is over and the list is what insert_data_to_neon gets.
ListBuilt ==
    fileOK /\ pc \notin {"start", "exit", "read", "build"}

\* C7: the list passed to insert_data_to_neon has one tuple per data row, in
\* row order, none dropped or duplicated; every tuple has
\* len(TARGET_COLUMNS) elements and element i is the row's value of column
\* TARGET_COLUMNS[i].
C7_OneTuplePerRow ==
    ListBuilt =>
        /\ Len(records) = Len(sheet)
        /\ \A k \in 1..Len(records) :
             /\ Len(records[k]) = EXPECTED_COLUMNS(script)
             /\ \A i \in 1..Len(records[k]) :
                  /\ records[k][i].row = k
                  /\ TableColumnOf(records[k][i].col) = TARGET_COLUMNS(script)[i]

\* insert_data_to_neon is about to run on a list of two dealer tuples.
C7_Witness ==
    /\ pc = "connect"
    /\ script \in DealerScripts
    /\ Len(sheet) = 2
    /\ Len(records) = 2

--------------------------------------------------------------------------------
(* C8 *)

\* C8: with the database URL missing or empty the script stops before it
\* reads the spreadsheet: it never gets past exit(), opens no connection,
\* inserts no row and sends no HTTP request.
C8_StopsWithoutDatabaseUrl ==
    dbUrl = "" =>
        /\ pc \in {"start", "exit"}
        /\ df = << >>
        /\ records = << >>
        /\ dbLog = << >>
        /\ conn = "none"
        /\ table = << >>
        /\ puts = << >>

\* The script has stopped at exit() although the workbook is there and has
\* rows.
C8_Witness ==
    /\ dbUrl = ""
    /\ pc = "exit"
    /\ fileOK
    /\ Len(sheet) >= 1

--------------------------------------------------------------------------------
(* C9 *)

\* C9: close is the last database call (nothing is committed, rolled back or
\* executed after it, and it is not called twice), and once
\* insert_data_to_neon has ended a connection that was opened has been
\* closed, exactly once.
C9_ClosedOnceAndLast ==
    /\ \A i \in DOMAIN dbLog : dbLog[i] = "close" => i = Len(dbLog)
    /\ conn = "closed" <=> Calls("close") = 1
    /\ conn # "closed" => Calls("close") = 0
    /\ InsertEnded => conn # "open"

\* insert_data_to_neon of tallyDealers.py or verifiedDealers.py ended with an
\* exception that is not a psycopg2.Error, the connection closed.
C9_Witness ==
    /\ pc = "crashed"
    /\ exc = "other"
    /\ conn = "closed"
    /\ dbLog = << "connect", "execute_batch", "close" >>

--------------------------------------------------------------------------------
(* C10 *)

\* C10: a PUT is only ever sent for a record whose spreadsheet latitude and
\* longitude are both numeric, with two numeric coordinates.
C10_NoPutWithoutCoordinates ==
    \A i \in DOMAIN puts :
        LET req == puts[i].req
            r == req.externalId.row
        IN  /\ sheet[r].latitude = "num"
            /\ sheet[r].longitude = "num"
            /\ req.coordinates[1].kind = "val"
            /\ req.coordinates[2].kind = "val"

--------------------------------------------------------------------------------
(* C6 *)

--------------------------------------------------------------------------------
(* C11 *)

\* The PUTs that were not answered 200 or 201.
FailedPuts == {i \in DOMAIN puts : puts[i].status \notin {"200", "201"}}

\* C11: a failed geofence call (another status, or an exception of the
\* request) neither stops the Radar loop nor undoes the insert: no exception
\* is in flight and nothing is rolled back, the committed rows stay the
\* table's, and the loop goes on to the end of the batch, every later record
\* with coordinates getting its PUT.
C11_RadarFailureTolerated ==
    FailedPuts # {} =>
        /\ pc \in {"radar_loop", "finally", "done"}
        /\ exc = "none"
        /\ Calls("rollback") = 0
        /\ table = records
        /\ pc \in {"finally", "done"} =>
             /\ radarIdx = Len(records)
             /\ Len(puts) = Len(SelectSeq(records, NotSkipped))

\* The request for the first of two records raised, the second record got
\* its PUT all the same, and both rows are in the table.
C11_Witness ==
    /\ pc = "done"
    /\ Len(records) = 2
    /\ Len(puts) = 2
    /\ puts[1].status = "exception"
    /\ puts[2].status = "201"
    /\ puts[2].req.externalId = records[2][1]
    /\ table = records

--------------------------------------------------------------------------------
(* C12 *)

\* The indices upsert_radar_geofence reads and the column it takes each for.
RadarIndexColumn ==
    [i \in {0, 1, 4, 5, 6, 7, 17, 18, 19} |->
        CASE i = 0 -> "id"
          [] i = 1 -> "user_id"
          [] i = 4 -> "name"
          [] i = 5 -> "region"
          [] i = 6 -> "area"
          [] i = 7 -> "phone_no"
          [] i = 17 -> "latitude"
          [] i = 18 -> "longitude"
          [] i = 19 -> "verification_status"]

\* The column each metadata key is meant to carry.
MetadataColumn ==
    [dealerId |-> "id", userId |-> "user_id", region |-> "region", area |-> "area",
     phoneNo |-> "phone_no", verificationStatus |-> "verification_status"]

\* Value v is record k's own value of table column c.
OwnValue(v, k, c) == v.row = k /\ TableColumnOf(v.col) = c

\* C12: the indices upsert_radar_geofence reads are the positions of id,
\* user_id, name, region, area, phone_no, latitude, longitude and
\* verification_status in TARGET_COLUMNS and in the tuple of the main loop,
\* so every PUT names the geofence by its record's id and carries that
\* record's own name as description, its own longitude and latitude as
\* coordinates and its own column values as metadata.
C12_RadarReadsOwnColumns ==
    /\ \A i \in DOMAIN RadarIndexColumn :
         /\ TARGET_COLUMNS("mainWithRadar")[i + 1] = RadarIndexColumn[i]
         /\ TableColumnOf(TupleFields("mainWithRadar")[i + 1]) = RadarIndexColumn[i]
    /\ \A n \in DOMAIN puts :
         LET req == puts[n].req
         IN  \E k \in 1..Len(records) :
               /\ req.externalId = records[k][1]
               /\ OwnValue(req.url, k, "id")
               /\ OwnValue(req.description, k, "name")
               /\ OwnValue(req.coordinates[1], k, "longitude")
               /\ OwnValue(req.coordinates[2], k, "latitude")
               /\ \A m \in DOMAIN req.metadata :
                    OwnValue(req.metadata[m], k, MetadataColumn[m])

\* The PUT of the second record of a batch has been sent, with every
\* metadata key.
C12_Witness ==
    /\ script = "mainWithRadar"
    /\ pc = "radar_loop"
    /\ Len(puts) = 2
    /\ puts[2].req.externalId = records[2][1]
    /\ DOMAIN puts[2].req.metadata = DOMAIN MetadataColumn

--------------------------------------------------------------------------------
(* C13 *)

\* C13: the four copies of clean_value are equivalent: called on the same
\* value, any two of them return the same result.
C13_CleanValueCopiesAgree ==
    pc = "clean" =>
        \A s1 \in DOMAIN cleanOut, s2 \in DOMAIN cleanOut : cleanOut[s1] = cleanOut[s2]

\* All four copies have been called on " 7.0" and returned "7".
C13_Witness ==
    /\ pc = "clean"
    /\ cleanIn = [na |-> FALSE, str |-> <<" ", "7", ".", "0">>]
    /\ DOMAIN cleanOut = Scripts
    /\ cleanOut["tallyDealers"] = ResultStr(<<"7">>)

====
